---- MODULE Spec2Model ----
(***************************************************************************)
(* The orbit playback engine of src/main.js.  The file holds two versions  *)
(* of the engine:                                                          *)
(*   "promiseAll"  (lines 34-197): every data file is fetched at once, the *)
(*                 loop is started by Promise.all(planetPromises).then;    *)
(*   "sequential"  (lines 199-418): loadPlanets awaits one file after the  *)
(*                 other, animate() is started at once, and the buttons    *)
(*                 toggleOrbits / speedUp / speedDown exist.               *)
(* A behaviour runs one of them (variable script).                         *)
(*                                                                         *)
(* JavaScript values:                                                      *)
(*   a number v is <<v>>, NaN / undefined is <<>> (NotANumber);            *)
(*   a Vector3 is a triple of such coordinates;                            *)
(*   an object used as a map ({}), is a function whose DOMAIN holds the    *)
(*   keys that were assigned;                                              *)
(*   a record of a data file is [hasPos, pos]: pos is the array under the  *)
(*   key "pos", hasPos = FALSE when the record has no such key.            *)
(* Render-space coordinates are exact rationals kept as integers: in units *)
(* of 1/10^7 in the promiseAll version (ORBIT_SCALE is 5 or 3 of them) and *)
(* of 1/5200000 in the sequential version (1/400000 = 13, 1/520000 = 10).  *)
(***************************************************************************)
EXTENDS Integers, Sequences, FiniteSets, TLC

\* ------------------------------------------------------------ bounds
\* Frames rendered in a behaviour of each version, and clicks on the speed
\* buttons.
MaxFramesPromiseAll == 32
MaxFramesSequential == 6
MaxSpeedClicks == 1

\* ------------------------------------------------------------ configuration
\* The configured bodies, in list order (three of the nine: both scale classes).
planets == <<"mercury", "earth", "jupiter">>

Names == {planets[i] : i \in 1..Len(planets)}

InnerPlanets == {"mercury", "earth"}

\* planet.ORBIT_SCALE (promiseAll), in units of 1/10^7.
ORBIT_SCALE(p) == IF p \in InnerPlanets THEN 5 ELSE 3

\* 1 / planet.scale (sequential), in units of 1/5200000.
InvScale(p) == IF p \in InnerPlanets THEN 13 ELSE 10

\* 1 / FRAME_SPEED: frameIndex is kept as the number of additions of 0.1.
TicksPerUnit == 10

\* ------------------------------------------------------------ values
Num(v) == <<v>>

NotANumber == <<>>

Vector3(x, y, z) == <<x, y, z>>

Origin == Vector3(Num(0), Num(0), Num(0))

Rec(x, y, z) == [hasPos |-> TRUE, pos |-> <<x, y, z>>]

ShortRec == [hasPos |-> TRUE, pos |-> <<1, 2>>]

NoPosRec == [hasPos |-> FALSE, pos |-> <<>>]

\* The data files a server may hold for a body (arrays of records).
DataFiles ==
    { <<>>,
      << Rec(0, 0, 0), Rec(10, 0, 0), Rec(20, 0, 0) >>,
      << Rec(10, 0, 0), ShortRec, Rec(20, 0, 0) >>,
      << Rec(10, 0, 0), NoPosRec >> }

\* What fetch + res.json() give for a body: the parsed array, a rejection
\* (network error, invalid JSON), or no answer at all.
Responses ==
    { [answer |-> "ok", data |-> d] : d \in DataFiles }
      \cup { [answer |-> "error", data |-> <<>>], [answer |-> "never", data |-> <<>>] }

\* obj[key] = value on an object used as a map.
Put(obj, key, value) ==
    [k \in (DOMAIN obj) \cup {key} |-> IF k = key THEN value ELSE obj[k]]

EmptyObject == [k \in {} |-> <<>>]

VARIABLES
    script,           \* which version of main.js runs
    server,           \* server[p]: the response to the fetch of p's data file
    requests,         \* requests[p]: number of fetch() calls issued for p
    planetMeshes,     \* planetMeshes[p]: mesh.position of p's mesh
    rendered,         \* number of renderer.render calls (frames rendered)
    \* promiseAll
    planetPositions,  \* planetPositions[p]: the parsed array as stored
    orbitPath,        \* orbitPath[p]: points of p.orbitPath.geometry
    settled,          \* bodies whose planetPromise has settled
    loop,             \* requestAnimationFrame(animate) is scheduled
    frameIndex,       \* number of "frameIndex += FRAME_SPEED" executed
    \* sequential
    orbitLines,       \* orbitLines[p]: [points, visible] of p's LineLoop
    orbitsVisible,
    loader,           \* loadPlanets: [at: index in planets, state]
    speed,            \* in units of 1/SpeedUnit
    t,                \* in units of 1/SpeedUnit
    speedClicks       \* speedUp + speedDown clicks so far

vars == << script, server, requests, planetMeshes, rendered, planetPositions,
           orbitPath, settled, loop, frameIndex, orbitLines, orbitsVisible,
           loader, speed, t, speedClicks >>

promiseAllVars == << planetPositions, orbitPath, settled, loop, frameIndex >>

sequentialVars == << orbitLines, orbitsVisible, loader, speed, t, speedClicks >>

\* ------------------------------------------------------------ construction
\* speed and t are rationals whose denominators divide 20^clicks
\* (1.5 = 3/2, 0.7 = 7/10); they are kept as multiples of 1/SpeedUnit.  The
\* arithmetic is exact: the rounding of 0.7 to a double is not modelled (it is
\* for FRAME_SPEED = 0.1, see RoundedDown).
SpeedUnit == 20 ^ MaxSpeedClicks

first == planets[1]

\* planets.forEach: a mesh per body, at the origin.
AllMeshes == [p \in Names |-> Origin]

\* Top level of the promiseAll version: meshes and empty orbit paths are
\* created, every fetch is issued, nothing has settled, animate has not run.
InitPromiseAll ==
    /\ script = "promiseAll"
    /\ planetMeshes = AllMeshes
    /\ orbitPath = [p \in Names |-> <<>>]
    /\ planetPositions = EmptyObject
    /\ frameIndex = 0
    /\ requests = [p \in Names |-> 1]
    /\ settled = {}
    /\ loop = FALSE
    /\ rendered = 0
    /\ orbitLines = EmptyObject
    /\ orbitsVisible = TRUE
    /\ loader = [at |-> 1, state |-> "unused"]
    /\ speed = SpeedUnit
    /\ t = 0
    /\ speedClicks = 0

\* Top level of the sequential version: loadPlanets() runs to its first
\* await (the first body's mesh exists, its fetch is issued), then animate()
\* runs its first frame (t = 0 + speed; no orbit line exists yet) and
\* schedules itself.
InitSequential ==
    /\ script = "sequential"
    /\ planetMeshes = Put(EmptyObject, first, Origin)
    /\ orbitLines = EmptyObject
    /\ orbitsVisible = TRUE
    /\ loader = [at |-> 1, state |-> "awaiting"]
    /\ requests = [p \in Names |-> IF p = first THEN 1 ELSE 0]
    /\ speed = SpeedUnit
    /\ t = SpeedUnit
    /\ rendered = 1
    /\ loop = TRUE
    /\ speedClicks = 0
    /\ planetPositions = EmptyObject
    /\ orbitPath = [p \in Names |-> <<>>]
    /\ frameIndex = 0
    /\ settled = {}

Init ==
    /\ server \in [Names -> Responses]
    /\ \/ InitPromiseAll
       \/ InitSequential

\* ------------------------------------------------------------ promiseAll
\* entry && entry.pos && entry.pos.length === 3
WellFormed(entry) == entry.hasPos /\ Len(entry.pos) = 3

\* new THREE.Vector3(entry.pos[0] * ORBIT_SCALE, ...)
ScaledPoint(p, entry) ==
    Vector3(Num(entry.pos[1] * ORBIT_SCALE(p)),
            Num(entry.pos[2] * ORBIT_SCALE(p)),
            Num(entry.pos[3] * ORBIT_SCALE(p)))

\* data.filter(...).map(...)
OrbitPathPoints(p, data) ==
    LET kept == SelectSeq(data, WellFormed)
    IN  [i \in 1..Len(kept) |-> ScaledPoint(p, kept[i])]

\* .then(data => {...}): the parsed array is stored as it is, the orbit path
\* is set from the filtered points.
ThenData(p) ==
    /\ script = "promiseAll"
    /\ p \notin settled
    /\ server[p].answer = "ok"
    /\ planetPositions' = Put(planetPositions, p, server[p].data)
    /\ orbitPath' = [orbitPath EXCEPT ![p] = OrbitPathPoints(p, server[p].data)]
    /\ settled' = settled \cup {p}
    /\ UNCHANGED << script, server, requests, planetMeshes, rendered, loop,
                    frameIndex, sequentialVars >>

\* .catch(err => console.error(...)): the promise settles, nothing is stored.
CatchError(p) ==
    /\ script = "promiseAll"
    /\ p \notin settled
    /\ server[p].answer = "error"
    /\ settled' = settled \cup {p}
    /\ UNCHANGED << script, server, requests, planetMeshes, rendered,
                    planetPositions, orbitPath, loop, frameIndex, sequentialVars >>

\* The numbers n of additions of 0.1 (n < 400) after which the IEEE-754 sum
\* lies just below the integer n/10: ten additions give 0.9999999999999999.
RoundedDown == {10} \cup {TicksPerUnit * k : k \in 5..18}

\* Math.floor(frameIndex)
FloorFrameIndex(n) ==
    IF n \in RoundedDown THEN (n \div TicksPerUnit) - 1 ELSE n \div TicksPerUnit

\* Mutant: the index is taken from the counter after its increment.
SampleIndexAfterIncrement(n, length) == FloorFrameIndex(n + 1) % length

\* Math.floor(frameIndex) % positions.length
SampleIndex(n, length) == FloorFrameIndex(n) % length

\* The position animate gives p's mesh in a frame that starts at counter n.
PlacedPromiseAll(p, n, positions, meshes) ==
    IF p \in DOMAIN positions /\ Len(positions[p]) > 0
    THEN LET idx == SampleIndex(n, Len(positions[p]))
         IN  IF idx + 1 \in 1..Len(positions[p]) /\ WellFormed(positions[p][idx + 1])
             THEN ScaledPoint(p, positions[p][idx + 1])
             ELSE meshes[p]
    ELSE meshes[p]

\* frameIndex += FRAME_SPEED
NextFrameIndex(n) == n + 1

\* One call of animate (promiseAll).
FramePromiseAll ==
    /\ planetMeshes' =
         [p \in Names |-> PlacedPromiseAll(p, frameIndex, planetPositions, planetMeshes)]
    /\ frameIndex' = NextFrameIndex(frameIndex)
    /\ rendered' = rendered + 1
    /\ loop' = TRUE

\* Mutant: the loop is started by the first promise that settles.
AnySettled == settled # {}

\* Promise.all(planetPromises) is fulfilled: every promise has settled.
AllSettled == settled = Names

\* Promise.all(planetPromises).then(() => animate())
StartAnimation ==
    /\ script = "promiseAll"
    /\ ~loop
    /\ AllSettled
    /\ FramePromiseAll
    /\ UNCHANGED << script, server, requests, planetPositions, orbitPath,
                    settled, sequentialVars >>

\* requestAnimationFrame(animate) fires.
AnimatePromiseAll ==
    /\ script = "promiseAll"
    /\ loop
    /\ rendered < MaxFramesPromiseAll
    /\ FramePromiseAll
    /\ UNCHANGED << script, server, requests, planetPositions, orbitPath,
                    settled, sequentialVars >>

\* ------------------------------------------------------------ sequential
\* d.pos[i] / planet.scale: a missing component is undefined, and
\* undefined / scale is NaN.
Coordinate(p, pos, i) ==
    IF i \in 1..Len(pos) THEN Num(pos[i] * InvScale(p)) ELSE NotANumber

\* new THREE.Vector3(d.pos[0] / planet.scale, ...)
OrbitPoint(p, d) ==
    Vector3(Coordinate(p, d.pos, 1), Coordinate(p, d.pos, 2), Coordinate(p, d.pos, 3))

\* orbitData.map(d => ...): no record is filtered out.
OrbitPoints(p, orbitData) == [i \in 1..Len(orbitData) |-> OrbitPoint(p, orbitData[i])]

\* new THREE.BufferGeometry().setFromPoints(orbitPoints): three.js writes
\* point.x, point.y, point.z || 0 into the position buffer.
SetFromPoints(points) ==
    [i \in 1..Len(points) |->
        Vector3(points[i][1], points[i][2],
                IF points[i][3] = NotANumber THEN Num(0) ELSE points[i][3])]

\* d.pos[0] throws a TypeError when the record d has no pos.
MapThrows(orbitData) == \E i \in 1..Len(orbitData) : ~orbitData[i].hasPos

\* new THREE.LineLoop(orbitGeometry, orbitMaterial): an Object3D is visible.
NewOrbitLine(points) == [points |-> SetFromPoints(points), visible |-> TRUE]

\* loadPlanets goes on after "await response.json()" for planets[loader.at]:
\* the orbit line is built and stored; then either the next iteration runs to
\* its await (next mesh, next fetch) or the loop ends.  A throw inside the
\* map rejects loadPlanets: nothing is stored and no iteration follows.
LoadOrbit ==
    /\ script = "sequential"
    /\ loader.state = "awaiting"
    /\ server[planets[loader.at]].answer = "ok"
    /\ LET p == planets[loader.at]
           orbitData == server[p].data
       IN  IF MapThrows(orbitData)
           THEN /\ loader' = [loader EXCEPT !.state = "rejected"]
                /\ UNCHANGED << orbitLines, planetMeshes, requests >>
           ELSE /\ orbitLines' = Put(orbitLines, p, NewOrbitLine(OrbitPoints(p, orbitData)))
                /\ IF loader.at < Len(planets)
                   THEN /\ loader' = [loader EXCEPT !.at = loader.at + 1]
                        /\ planetMeshes' = Put(planetMeshes, planets[loader.at + 1], Origin)
                        /\ requests' = [requests EXCEPT ![planets[loader.at + 1]] = @ + 1]
                   ELSE /\ loader' = [loader EXCEPT !.state = "done"]
                        /\ UNCHANGED << planetMeshes, requests >>
    /\ UNCHANGED << script, server, rendered, promiseAllVars, orbitsVisible,
                    speed, t, speedClicks >>

\* "await fetch(...)" or "await response.json()" rejects: loadPlanets has no
\* try/catch, its promise is rejected and the for loop is left.
LoadReject ==
    /\ script = "sequential"
    /\ loader.state = "awaiting"
    /\ server[planets[loader.at]].answer = "error"
    /\ loader' = [loader EXCEPT !.state = "rejected"]
    /\ UNCHANGED << script, server, requests, planetMeshes, rendered,
                    promiseAllVars, orbitLines, orbitsVisible, speed, t,
                    speedClicks >>

\* Mutant: the modulo is left out.
PointIndexNoWrap(time, count) == Num(time \div (2 * SpeedUnit))

\* Math.floor((t / 2) % position.count): x % 0 is NaN in JavaScript.
PointIndex(time, count) ==
    IF count = 0
    THEN NotANumber
    ELSE Num((time % (2 * SpeedUnit * count)) \div (2 * SpeedUnit))

\* mesh.position.fromBufferAttribute(position, index): reads
\* array[index * 3 + k], which is undefined outside the buffer.
FromBufferAttribute(points, index) ==
    IF index # NotANumber /\ index[1] + 1 \in 1..Len(points)
    THEN points[index[1] + 1]
    ELSE Vector3(NotANumber, NotANumber, NotANumber)

\* The position animate gives p's mesh in a frame whose counter, after
\* "t += speed", is time.
PlacedSequential(p, time, lines, meshes) ==
    IF p \in DOMAIN lines
    THEN FromBufferAttribute(lines[p].points, PointIndex(time, Len(lines[p].points)))
    ELSE meshes[p]

\* Mutant: t is advanced by a fixed 1, whatever the speed.
NextTFixed(time, step) == time + SpeedUnit

\* t += speed
NextT(time, step) == time + step

\* requestAnimationFrame(animate) fires (sequential).
AnimateSequential ==
    /\ script = "sequential"
    /\ loop
    /\ rendered < MaxFramesSequential
    /\ t' = NextT(t, speed)
    /\ planetMeshes' =
         [p \in DOMAIN planetMeshes |-> PlacedSequential(p, t', orbitLines, planetMeshes)]
    /\ rendered' = rendered + 1
    /\ UNCHANGED << script, server, requests, promiseAllVars, orbitLines,
                    orbitsVisible, loader, speed, speedClicks >>

\* Mutant: hiding an orbit line empties its geometry.
SetVisibleClearing(lines, visible) ==
    [p \in DOMAIN lines |->
        [points |-> IF visible THEN lines[p].points ELSE <<>>, visible |-> visible]]

\* for (const line of Object.values(orbitLines)) line.visible = orbitsVisible
SetVisible(lines, visible) ==
    [p \in DOMAIN lines |-> [lines[p] EXCEPT !.visible = visible]]

\* click on toggleOrbits
ToggleOrbits ==
    /\ script = "sequential"
    /\ orbitsVisible' = ~orbitsVisible
    /\ orbitLines' = SetVisible(orbitLines, orbitsVisible')
    /\ UNCHANGED << script, server, requests, planetMeshes, rendered,
                    promiseAllVars, loader, speed, t, speedClicks >>

\* speed *= 1.5
Faster(s) == (s * 3) \div 2

\* speed *= 0.7
Slower(s) == (s * 7) \div 10

\* click on speedUp
SpeedUp ==
    /\ script = "sequential"
    /\ speedClicks < MaxSpeedClicks
    /\ speedClicks' = speedClicks + 1
    /\ speed' = Faster(speed)
    /\ UNCHANGED << script, server, requests, planetMeshes, rendered,
                    promiseAllVars, orbitLines, orbitsVisible, loader, t >>

\* click on speedDown
SpeedDown ==
    /\ script = "sequential"
    /\ speedClicks < MaxSpeedClicks
    /\ speedClicks' = speedClicks + 1
    /\ speed' = Slower(speed)
    /\ UNCHANGED << script, server, requests, planetMeshes, rendered,
                    promiseAllVars, orbitLines, orbitsVisible, loader, t >>

\* ------------------------------------------------------------ specification
Next ==
    \/ \E p \in Names : ThenData(p)
    \/ \E p \in Names : CatchError(p)
    \/ StartAnimation
    \/ AnimatePromiseAll
    \/ LoadOrbit
    \/ LoadReject
    \/ AnimateSequential
    \/ ToggleOrbits
    \/ SpeedUp
    \/ SpeedDown

Spec == Init /\ [][Next]_vars

\* The event loop runs every callback that is ready; clicks are up to the
\* user and get no fairness.
Fairness ==
    /\ \A p \in Names : WF_vars(ThenData(p)) /\ WF_vars(CatchError(p))
    /\ WF_vars(StartAnimation)
    /\ WF_vars(AnimatePromiseAll)
    /\ WF_vars(LoadOrbit)
    /\ WF_vars(LoadReject)
    /\ WF_vars(AnimateSequential)

FairSpec == Init /\ [][Next]_vars /\ Fairness

\* ------------------------------------------------------------ vocabulary
PromiseAllRuns == script = "promiseAll"

\* The body's series has been stored.
Loaded(p) ==
    IF PromiseAllRuns THEN p \in DOMAIN planetPositions ELSE p \in DOMAIN orbitLines

\* The sequence animate indexes into, whose length is the modulus.
PlaybackSequence(p) ==
    IF PromiseAllRuns THEN planetPositions[p] ELSE orbitLines[p].points

SequenceEmpty(p) == ~Loaded(p) \/ Len(PlaybackSequence(p)) = 0

AllWellFormed(data) == \A i \in 1..Len(data) : WellFormed(data[i])

\* A usable file: the fetch is answered with well-formed records only.
GoodFile(p) ==
    /\ server[p].answer = "ok"
    /\ Len(server[p].data) > 0
    /\ AllWellFormed(server[p].data)

\* Every fetch that was or will be issued has been dealt with.
LoadingOver ==
    IF PromiseAllRuns THEN settled = Names ELSE loader.state \in {"done", "rejected"}

\* The fetch (or parse) of p's file has failed.
LoadFailed(p) ==
    /\ server[p].answer = "error"
    /\ IF PromiseAllRuns
       THEN p \in settled
       ELSE loader.state = "rejected" /\ planets[loader.at] = p

\* A step that renders a frame.
FrameStep == rendered' # rendered

\* The frame counter and the amount the next frame adds to it.
Counter == IF PromiseAllRuns THEN frameIndex ELSE t

Step == IF PromiseAllRuns THEN 1 ELSE speed

\* The stored series of a body: samples and orbit path.
Series(p) ==
    IF PromiseAllRuns
    THEN << IF p \in DOMAIN planetPositions THEN << planetPositions[p] >> ELSE <<>>,
            orbitPath[p] >>
    ELSE << IF p \in DOMAIN orbitLines THEN << orbitLines[p].points >> ELSE <<>> >>

Unloaded(p) ==
    IF PromiseAllRuns
    THEN p \notin DOMAIN planetPositions /\ orbitPath[p] = <<>>
    ELSE p \notin DOMAIN orbitLines

\* ------------------------------------------------------------ claims

\* C1: load-failure isolation.  Once loading is over, a body Y whose file is
\* usable has its series loaded although the load of another body X failed,
\* wherever X stands in the list, in both loaders, and the playback loop runs
\* or is about to be started.
C1_FailureIsolated ==
    \A X \in Names : \A Y \in Names \ {X} :
        (LoadingOver /\ LoadFailed(X) /\ GoodFile(Y))
        => (Loaded(Y) /\ (loop \/ ENABLED StartAnimation))

\* C2: stalled-fetch isolation.  If the fetch of X is never answered and
\* every other body's file is usable and its fetch answered, every other body
\* Y is eventually loaded with the animation loop running (so that the next
\* frame positions it).
C2_StallIsolated ==
    \A X \in Names : \A Y \in Names \ {X} :
        (/\ server[X].answer = "never"
         /\ \A Z \in Names \ {X} : GoodFile(Z))
        => <>(Loaded(Y) /\ loop)

\* C3: malformed-entry filtering.  The load of a file with N records, M of
\* them malformed, does not abort, and the sequence playback indexes into
\* holds exactly the N - M well-formed ones.
C3_MalformedFiltered ==
    /\ \A p \in Names :
         Loaded(p) =>
           Len(PlaybackSequence(p)) = Len(SelectSeq(server[p].data, WellFormed))
    /\ (~PromiseAllRuns /\ loader.state = "rejected")
         => server[planets[loader.at]].answer = "error"

\* C4: a frame leaves the position of every body whose sequence is empty
\* (pending, failed, or loaded with zero samples) as it was.
C4_EmptySkipped ==
    [][FrameStep =>
         \A p \in DOMAIN planetMeshes :
            SequenceEmpty(p) => planetMeshes'[p] = planetMeshes[p]]_vars

C8_WriteOnce ==
    /\ [][\A p \in Names :
            Series(p)' # Series(p) =>
               (Unloaded(p) /\ ~Unloaded(p)' /\ server[p].answer = "ok")]_vars
    /\ [](\A p \in Names :
            /\ requests[p] <= 1
            /\ server[p].answer = "error" => Unloaded(p))

\* C8 witness: a loaded orbit has gone through frames and a toggle click, and
\* the load of the next body has failed.
C8_Witness ==
    /\ ~PromiseAllRuns
    /\ "mercury" \in DOMAIN orbitLines
    /\ Len(orbitLines["mercury"].points) = 3
    /\ ~orbitsVisible
    /\ planetMeshes["mercury"] # Origin
    /\ LoadFailed("earth")

\* C9: in the promiseAll version no frame runs while a load is pending.
C9_StartAfterAllSettled ==
    (PromiseAllRuns /\ settled # Names) =>
        (rendered = 0 /\ frameIndex = 0 /\ ~loop /\ planetMeshes = AllMeshes)

\* C9 witness: frames run after every load has settled, one of them failed
\* and one of them succeeded.
C9_Witness ==
    /\ PromiseAllRuns
    /\ rendered > 1
    /\ \E p \in Names : LoadFailed(p)
    /\ \E p \in Names : Loaded(p) /\ planetMeshes[p] # Origin

\* C10: every orbit line in orbitLines has its visible flag equal to
\* orbitsVisible.
C10_VisibilityConsistent ==
    \A p \in DOMAIN orbitLines : orbitLines[p].visible = orbitsVisible

====
